---- MODULE Spec2Model ----
(***************************************************************************)
(* Model of homework.py: the fitness-tracker module (InfoMessage, Training *)
(* and its three variants, read_package, main and the __main__ block).     *)
(*                                                                         *)
(* Python numbers are modelled as they are computed: an int is an exact    *)
(* integer, a float is an IEEE-754 binary64 value (sign, 53-bit            *)
(* significand, exponent) and every float operation rounds its exact       *)
(* result to nearest, ties to even.  Significands and the intermediate     *)
(* exact results are natural numbers in base 2^15, least significant limb  *)
(* first, because they do not fit the 32-bit integers of TLC.              *)
(*                                                                         *)
(* Every operation on Python values is reached through Py(name, args),     *)
(* the interpreter's lookup of an operator or a method by its name.        *)
(***************************************************************************)
EXTENDS Integers, Sequences, FiniteSets, TLC

(***************************************************************************)
(* Natural numbers of arbitrary size: <<>> is 0, no leading zero limb.     *)
(***************************************************************************)
Base == 2^15

RECURSIVE BNorm(_)
BNorm(a) ==
    IF a = <<>> THEN <<>>
    ELSE IF a[Len(a)] = 0 THEN BNorm(SubSeq(a, 1, Len(a) - 1))
    ELSE a

RECURSIVE BFromInt(_)
BFromInt(n) ==
    IF n = 0 THEN <<>> ELSE <<n % Base>> \o BFromInt(n \div Base)

BHead(a) == IF a = <<>> THEN 0 ELSE Head(a)

BTail(a) == IF a = <<>> THEN <<>> ELSE Tail(a)

\* a + b + c for a carry c of 0 or 1
RECURSIVE BAddC(_, _, _)
BAddC(a, b, c) ==
    IF a = <<>> /\ b = <<>> THEN (IF c = 0 THEN <<>> ELSE <<c>>)
    ELSE IF b = <<>> /\ c = 0 THEN a
    ELSE IF a = <<>> /\ c = 0 THEN b
    ELSE <<(BHead(a) + BHead(b) + c) % Base>>
         \o BAddC(BTail(a), BTail(b), (BHead(a) + BHead(b) + c) \div Base)

BAdd(a, b) == BAddC(a, b, 0)

\* a - b - c for a >= b + c, before the leading zeros are dropped
RECURSIVE BSubC(_, _, _)
BSubC(a, b, c) ==
    IF b = <<>> /\ c = 0 THEN a
    ELSE IF BHead(a) - BHead(b) - c < 0
    THEN <<BHead(a) - BHead(b) - c + Base>> \o BSubC(BTail(a), BTail(b), 1)
    ELSE <<BHead(a) - BHead(b) - c>> \o BSubC(BTail(a), BTail(b), 0)

BSub(a, b) == BNorm(BSubC(a, b, 0))

\* -1, 0, 1 as a < b, a = b, a > b
RECURSIVE BCmpAt(_, _, _)
BCmpAt(a, b, i) ==
    IF i = 0 THEN 0
    ELSE IF a[i] < b[i] THEN -1
    ELSE IF a[i] > b[i] THEN 1
    ELSE BCmpAt(a, b, i - 1)

BCmp(a, b) ==
    IF Len(a) < Len(b) THEN -1
    ELSE IF Len(a) > Len(b) THEN 1
    ELSE BCmpAt(a, b, Len(a))

\* a * k + c for a limb k and a carry c below Base
RECURSIVE BMulSmallC(_, _, _)
BMulSmallC(a, k, c) ==
    IF a = <<>> THEN (IF c = 0 THEN <<>> ELSE <<c>>)
    ELSE <<(Head(a) * k + c) % Base>>
         \o BMulSmallC(Tail(a), k, (Head(a) * k + c) \div Base)

BMulSmall(a, k) == IF k = 0 THEN <<>> ELSE BMulSmallC(a, k, 0)

BShiftLimbs(a, n) == IF a = <<>> THEN <<>> ELSE [i \in 1..n |-> 0] \o a

RECURSIVE BMul(_, _)
BMul(a, b) ==
    IF a = <<>> \/ b = <<>> THEN <<>>
    ELSE BAdd(BMulSmall(a, Head(b)), BShiftLimbs(BMul(a, Tail(b)), 1))

\* the limbs of the quotient of a by a limb d > 0, from the top limb down,
\* with the remainder last
RECURSIVE BDivSmallAt(_, _, _, _, _)
BDivSmallAt(a, d, i, r, q) ==
    IF i = 0 THEN [q |-> BNorm(q), r |-> r]
    ELSE BDivSmallAt(a, d, i - 1, (r * Base + a[i]) % d,
                     <<(r * Base + a[i]) \div d>> \o q)

BDivSmall(a, d) == BDivSmallAt(a, d, Len(a), 0, <<>>)

RECURSIVE IntBitLen(_)
IntBitLen(n) == IF n = 0 THEN 0 ELSE 1 + IntBitLen(n \div 2)

BBitLen(a) == IF a = <<>> THEN 0 ELSE 15 * (Len(a) - 1) + IntBitLen(a[Len(a)])

\* a * 2^k
BShl(a, k) == BShiftLimbs(BMulSmall(a, 2^(k % 15)), k \div 15)

\* floor(a / 2^k)
BShr(a, k) ==
    IF k \div 15 >= Len(a) THEN <<>>
    ELSE BDivSmall(SubSeq(a, (k \div 15) + 1, Len(a)), 2^(k % 15)).q

\* a mod 2^k
BLow(a, k) ==
    IF k \div 15 >= Len(a) THEN a
    ELSE BNorm(SubSeq(a, 1, k \div 15) \o <<a[(k \div 15) + 1] % (2^(k % 15))>>)

BIsOdd(a) == a # <<>> /\ a[1] % 2 = 1

(***************************************************************************)
(* Long division (Knuth's algorithm D) of a by b > 0 with b's top limb at  *)
(* least Base/2: the quotient limb is estimated from the two top limbs of  *)
(* the running remainder and corrected downwards.                          *)
(***************************************************************************)
RECURSIVE BFixDigit(_, _, _)
BFixDigit(r, b, qd) ==
    IF BCmp(BMulSmall(b, qd), r) = 1 THEN BFixDigit(r, b, qd - 1) ELSE qd

BLimb(r, i) == IF 1 <= i /\ i <= Len(r) THEN r[i] ELSE 0

BEstimate(r, b) == (BLimb(r, Len(b) + 1) * Base + BLimb(r, Len(b))) \div b[Len(b)]

BQuotDigit(r, b) ==
    BFixDigit(r, b, IF BEstimate(r, b) > Base - 1 THEN Base - 1 ELSE BEstimate(r, b))

\* a's limbs from the i-th down, r the remainder and q the quotient so far;
\* each remainder is computed before the next limb is taken
RECURSIVE BDivAt(_, _, _, _, _)
RECURSIVE BDivDigit(_, _, _, _, _)
RECURSIVE BDivRest(_, _, _, _, _, _)
BDivAt(a, b, i, r, q) ==
    IF i = 0 THEN [q |-> BNorm(q), r |-> r]
    ELSE BDivDigit(a, b, i, q, BNorm(<<a[i]>> \o r))

BDivDigit(a, b, i, q, cur) ==
    BDivRest(a, b, i, q, BQuotDigit(cur, b), cur)

BDivRest(a, b, i, q, qd, cur) ==
    IF qd >= 0 THEN BDivAt(a, b, i - 1, BSub(cur, BMulSmall(b, qd)), <<qd>> \o q)
    ELSE [q |-> q, r |-> cur]

BDivNormal(a, b) == BDivAt(a, b, Len(a), <<>>, <<>>)

BDivUnshift(d, sh) == [q |-> d.q, r |-> BShr(d.r, sh)]

BDivShift(a, b, sh) == BDivUnshift(BDivNormal(BShl(a, sh), BShl(b, sh)), sh)

\* quotient and remainder of a by any b > 0
BDivMod(a, b) == BDivShift(a, b, 15 - IntBitLen(b[Len(b)]))

(***************************************************************************)
(* Python values.  A number is [k, s, m, e]: k = "int" is the integer      *)
(* (-1)^s * m (e = 0), k = "float" the binary64 value (-1)^s * m * 2^e     *)
(* with m = 0 or 2^52 <= m < 2^53.  Any other k is a raised exception of   *)
(* that type, which every operation passes on, the left operand's first,   *)
(* as the interpreter evaluates left to right.  Exponents are not bounded: *)
(* overflow to inf and subnormal results are outside the modelled inputs.  *)
(***************************************************************************)
RECURSIVE Py(_, _)

DBL_MANT_DIG == 53

PyInt(n) ==
    [k |-> "int", s |-> IF n < 0 THEN 1 ELSE 0,
     m |-> BFromInt(IF n < 0 THEN -n ELSE n), e |-> 0]

Raise(type) == [k |-> type, s |-> 0, m |-> <<>>, e |-> 0]

IsNum(v) == v.k \in {"int", "float"}

IsRaised(v) == ~IsNum(v)

\* the operators and conversions of numbers, as the code writes them
PyMul(a, b) == Py("__mul__", <<a, b>>)

PyTrueDiv(a, b) == Py("__truediv__", <<a, b>>)

PyAdd(a, b) == Py("__add__", <<a, b>>)

PyPow2(a, libm) == Py("__pow__", <<a, libm>>)

ToFloat(v) == Py("__float__", <<v>>)

Format3f(v) == Py("__format__", <<v>>)

FRound(s, n, e, sticky) == Py("round", <<s, n, e, sticky>>)

Xor(s, t) == (s + t) % 2

FZero(s) == [k |-> "float", s |-> s, m |-> <<>>, e |-> 0]

\* (-1)^s * r * 2^e for r of DBL_MANT_DIG bits, or of one more and even
FNormal(s, r, e) ==
    IF BBitLen(r) > DBL_MANT_DIG
    THEN [k |-> "float", s |-> s, m |-> BShr(r, 1), e |-> e + 1]
    ELSE [k |-> "float", s |-> s, m |-> r, e |-> e]

\* q with the bits cut off below it rounded away: c compares them with one
\* half, and a tie goes to the even neighbour unless more follows (sticky)
FRoundUp(s, q, e, c, sticky) ==
    FNormal(s,
            IF c = 1 \/ (c = 0 /\ (sticky \/ BIsOdd(q))) THEN BAdd(q, <<1>>) ELSE q,
            e)

FRoundCut(s, n, e, sticky, cut) ==
    IF cut <= 0
    THEN [k |-> "float", s |-> s, m |-> BShl(n, -cut), e |-> e + cut]
    ELSE FRoundUp(s, BShr(n, cut), e + cut,
                  BCmp(BLow(n, cut), BShl(<<1>>, cut - 1)), sticky)

\* the float nearest to (-1)^s * (n + t) * 2^e, ties to even, where t = 0, or
\* 0 < t < 1 when sticky (and then n has more than DBL_MANT_DIG + 1 bits)
float_round(s, n, e, sticky) ==
    IF n = <<>> THEN FZero(s)
    ELSE FRoundCut(s, n, e, sticky, BBitLen(n) - DBL_MANT_DIG)

FRoundDirCut(s, n, e, dir, cut) ==
    IF cut <= 0
    THEN [k |-> "float", s |-> s, m |-> BShl(n, -cut), e |-> e + cut]
    ELSE FNormal(s,
                 IF dir = "up" /\ BLow(n, cut) # <<>>
                 THEN BAdd(BShr(n, cut), <<1>>) ELSE BShr(n, cut),
                 e + cut)

\* the neighbour of (-1)^s * n * 2^e below it in magnitude ("down") or above
\* it ("up"); the value itself when it is a float
FRoundDir(s, n, e, dir) ==
    IF n = <<>> THEN FZero(s)
    ELSE FRoundDirCut(s, n, e, dir, BBitLen(n) - DBL_MANT_DIG)

\* float(v) for an int v; a float is itself
number_float(v) == IF v.k = "float" THEN v ELSE FRound(v.s, v.m, 0, FALSE)

float_mul(fa, fb) == FRound(Xor(fa.s, fb.s), BMul(fa.m, fb.m), fa.e + fb.e, FALSE)

\* a * b
number_mul(a, b) ==
    IF IsRaised(a) THEN a
    ELSE IF IsRaised(b) THEN b
    ELSE IF a.k = "int" /\ b.k = "int"
    THEN [k |-> "int", s |-> IF a.m = <<>> \/ b.m = <<>> THEN 0 ELSE Xor(a.s, b.s),
          m |-> BMul(a.m, b.m), e |-> 0]
    ELSE float_mul(ToFloat(a), ToFloat(b))

float_div_round(fa, fb, sh, d) ==
    FRound(Xor(fa.s, fb.s), d.q, fa.e - fb.e - sh, d.r # <<>>)

float_div_shift(fa, fb, sh) ==
    float_div_round(fa, fb, sh, BDivMod(BShl(fa.m, sh), fb.m))

\* the quotient with at least DBL_MANT_DIG + 2 bits, and whether a remainder
\* is left, decide the rounding
float_div(fa, fb) ==
    float_div_shift(fa, fb,
                    IF DBL_MANT_DIG + 2 + BBitLen(fb.m) - BBitLen(fa.m) > 0
                    THEN DBL_MANT_DIG + 2 + BBitLen(fb.m) - BBitLen(fa.m)
                    ELSE 0)

\* a / b (true division): a zero divisor of either type raises.  Two ints
\* give their exact quotient rounded once; otherwise an int operand is first
\* converted to a float
number_truediv(a, b) ==
    IF IsRaised(a) THEN a
    ELSE IF IsRaised(b) THEN b
    ELSE IF b.m = <<>> THEN Raise("ZeroDivisionError")
    ELSE IF a.m = <<>> THEN FZero(Xor(a.s, b.s))
    ELSE float_div(IF a.k = "int" /\ b.k = "int" THEN a ELSE ToFloat(a),
                   IF a.k = "int" /\ b.k = "int" THEN b ELSE ToFloat(b))

float_sub_aligned(sa, sb, na, nb, lo, c) ==
    IF c = 0 THEN FZero(0)
    ELSE IF c = 1 THEN FRound(sa, BSub(na, nb), lo, FALSE)
    ELSE FRound(sb, BSub(nb, na), lo, FALSE)

float_add_aligned(sa, sb, na, nb, lo) ==
    IF sa = sb THEN FRound(sa, BAdd(na, nb), lo, FALSE)
    ELSE float_sub_aligned(sa, sb, na, nb, lo, BCmp(na, nb))

float_add_at(fa, fb, lo) ==
    float_add_aligned(fa.s, fb.s, BShl(fa.m, fa.e - lo), BShl(fb.m, fb.e - lo), lo)

float_add(fa, fb) ==
    IF fa.m = <<>> /\ fb.m = <<>> THEN FZero(IF fa.s = 1 /\ fb.s = 1 THEN 1 ELSE 0)
    ELSE IF fa.m = <<>> THEN fb
    ELSE IF fb.m = <<>> THEN fa
    ELSE float_add_at(fa, fb, IF fa.e < fb.e THEN fa.e ELSE fb.e)

\* a + b where at least one operand is a float (every sum of the program has
\* a float literal or a float product as an operand)
number_add(a, b) ==
    IF IsRaised(a) THEN a
    ELSE IF IsRaised(b) THEN b
    ELSE float_add(ToFloat(a), ToFloat(b))

float_square(fa, libm) ==
    IF libm = "nearest" THEN FRound(0, BMul(fa.m, fa.m), fa.e + fa.e, FALSE)
    ELSE FRoundDir(0, BMul(fa.m, fa.m), fa.e + fa.e, libm)

\* a ** 2 for a float a: the C library's pow, which returns the exact square
\* when it is a float and otherwise one of its two neighbours; which one is
\* the library's choice (libm), the same on every call
float_pow(a, libm) ==
    IF IsRaised(a) THEN a ELSE float_square(ToFloat(a), libm)

\* a >= 0 and a > 0 (-0.0 >= 0 is true)
(***************************************************************************)
(* str values are sequences of Unicode code points.                        *)
(***************************************************************************)
RECURSIVE DecimalDigits(_)
DecimalDigits(n) ==
    IF n = <<>> THEN <<>>
    ELSE DecimalDigits(BDivSmall(n, 10).q) \o <<48 + BDivSmall(n, 10).r>>

ThousandthsUp(q, c) ==
    IF c = 1 \/ (c = 0 /\ BIsOdd(q)) THEN BAdd(q, <<1>>) ELSE q

ThousandthsCut(t, cut) ==
    ThousandthsUp(BShr(t, cut), BCmp(BLow(t, cut), BShl(<<1>>, cut - 1)))

\* |f| * 1000 rounded to an integer, ties to even
Thousandths(f) ==
    IF f.e >= 0 THEN BShl(BMulSmall(f.m, 1000), f.e)
    ELSE ThousandthsCut(BMulSmall(f.m, 1000), -f.e)

FixedPoint(s, padded) ==
    (IF s = 1 THEN <<45>> ELSE <<>>)
    \o SubSeq(padded, 1, Len(padded) - 3) \o <<46>>
    \o SubSeq(padded, Len(padded) - 2, Len(padded))

ZeroPadded(digits) == [i \in 1..(4 - Len(digits)) |-> 48] \o digits

float_format(f) == FixedPoint(f.s, ZeroPadded(DecimalDigits(Thousandths(f))))

\* '{value:.3f}': the float (an int is converted first) in fixed notation with
\* three digits after the point, correctly rounded, ties to even
number_format_3f(v) == float_format(ToFloat(v))

(***************************************************************************)
(* class InfoMessage (a dataclass of six fields; message is the template)  *)
(***************************************************************************)
\* 'Workout type: ' (the source's literals are Russian; glosses are English)
TEXT_TYPE ==
    <<1058, 1080, 1087, 32, 1090, 1088, 1077, 1085, 1080, 1088, 1086, 1074,
      1082, 1080, 58, 32>>

\* '; Duration: '
TEXT_DURATION ==
    <<59, 32, 1044, 1083, 1080, 1090, 1077, 1083, 1100, 1085, 1086, 1089,
      1090, 1100, 58, 32>>

\* ' h.; Distance: '
TEXT_DISTANCE ==
    <<32, 1095, 46, 59, 32, 1044, 1080, 1089, 1090, 1072, 1085, 1094, 1080,
      1103, 58, 32>>

\* ' km; Mean speed: '
TEXT_SPEED ==
    <<32, 1082, 1084, 59, 32, 1057, 1088, 46, 32, 1089, 1082, 1086, 1088,
      1086, 1089, 1090, 1100, 58, 32>>

\* ' km/h; Calories spent: '
TEXT_CALORIES ==
    <<32, 1082, 1084, 47, 1095, 59, 32, 1055, 1086, 1090, 1088, 1072, 1095,
      1077, 1085, 1086, 32, 1082, 1082, 1072, 1083, 58, 32>>

\* '.'
TEXT_END == <<46>>

\* a faulty template: the speed before the distance
MESSAGE_speed_first ==
    << [text |-> TEXT_TYPE,     field |-> "training_type", spec |-> ""],
       [text |-> TEXT_DURATION, field |-> "duration",      spec |-> ".3f"],
       [text |-> TEXT_DISTANCE, field |-> "speed",         spec |-> ".3f"],
       [text |-> TEXT_SPEED,    field |-> "distance",      spec |-> ".3f"],
       [text |-> TEXT_CALORIES, field |-> "calories",      spec |-> ".3f"],
       [text |-> TEXT_END,      field |-> "",              spec |-> ""] >>

\* the default of InfoMessage.message: literal text, each followed by the
\* replacement field {field:spec} that comes after it ("" after the last)
MESSAGE ==
    << [text |-> TEXT_TYPE,     field |-> "training_type", spec |-> ""],
       [text |-> TEXT_DURATION, field |-> "duration",      spec |-> ".3f"],
       [text |-> TEXT_DISTANCE, field |-> "distance",      spec |-> ".3f"],
       [text |-> TEXT_SPEED,    field |-> "speed",         spec |-> ".3f"],
       [text |-> TEXT_CALORIES, field |-> "calories",      spec |-> ".3f"],
       [text |-> TEXT_END,      field |-> "",              spec |-> ""] >>

InfoMessage(training_type, duration, distance, speed, calories) ==
    [cls |-> "InfoMessage", training_type |-> training_type,
     duration |-> duration, distance |-> distance, speed |-> speed,
     calories |-> calories, message |-> MESSAGE]

\* template.format(**fields)
RECURSIVE StrFormat(_, _)
StrFormat(template, fields) ==
    IF template = <<>> THEN <<>>
    ELSE Head(template).text
         \o (IF Head(template).field = "" THEN <<>>
             ELSE IF Head(template).spec = ".3f"
             THEN Format3f(fields[Head(template).field])
             ELSE fields[Head(template).field])
         \o StrFormat(Tail(template), fields)

InfoMessage_get_message(self) == StrFormat(self.message, self)

(***************************************************************************)
(* class Training and its subclasses.  An instance is a record of its      *)
(* class and its attributes.  self.method() is Py("method", <<self>>),     *)
(* which finds the method in the instance's class and then in Training.    *)
(***************************************************************************)
get_distance(self) == Py("get_distance", <<self>>)

get_mean_speed(self) == Py("get_mean_speed", <<self>>)

get_spent_calories(self, libm) == Py("get_spent_calories", <<self, libm>>)

show_training_info(self, libm) == Py("show_training_info", <<self, libm>>)

get_message(self) == Py("get_message", <<self>>)

M_IN_KM == PyInt(1000)

MIN_IN_HOUR == PyInt(60)

\* 0.65 and 1.38: a float literal is the float nearest to the decimal
Training_LEN_STEP == PyTrueDiv(PyInt(65), PyInt(100))

Swimming_LEN_STEP == PyTrueDiv(PyInt(138), PyInt(100))

LEN_STEP(self) ==
    IF self.cls = "Swimming" THEN Swimming_LEN_STEP ELSE Training_LEN_STEP

CALORIES_M == PyInt(18)

CALORIES_S == PyTrueDiv(PyInt(179), PyInt(100))

CALORIES_C1 == PyTrueDiv(PyInt(35), PyInt(1000))

CALORIES_C2 == PyTrueDiv(PyInt(29), PyInt(1000))

KM_IN_MS == PyTrueDiv(PyInt(278), PyInt(1000))

CENTI_IN_MET == PyInt(100)

CALORIES_SWIMMING_1 == PyTrueDiv(PyInt(11), PyInt(10))

CALORIES_SWIMMING_2 == PyInt(2)

\* the text of NotImplementedError: 'get_spent_calories() has to be defined'
TEXT_NOT_IMPLEMENTED ==
    <<1058, 1088, 1077, 1073, 1091, 1077, 1090, 1089, 1103, 32, 1086, 1087,
      1088, 1077, 1076, 1077, 1083, 1080, 1090, 1100, 32, 103, 101, 116, 95,
      115, 112, 101, 110, 116, 95, 99, 97, 108, 111, 114, 105, 101, 115, 40,
      41>>

\* __class__.__name__
CLASS_NAME ==
    [Training      |-> <<84, 114, 97, 105, 110, 105, 110, 103>>,
     Running       |-> <<82, 117, 110, 110, 105, 110, 103>>,
     SportsWalking |-> <<83, 112, 111, 114, 116, 115, 87, 97, 108, 107, 105, 110, 103>>,
     Swimming      |-> <<83, 119, 105, 109, 109, 105, 110, 103>>]

\* an exception object; args is the text the source gives it, and empty for
\* the interpreter's own ZeroDivisionError and TypeError
Exception(type, args) == [cls |-> type, args |-> args]

ExceptionOf(v) ==
    Exception(v.k, IF v.k = "NotImplementedError" THEN TEXT_NOT_IMPLEMENTED ELSE <<>>)

IsException(obj) ==
    obj.cls \in {"ValueError", "TypeError", "ZeroDivisionError", "NotImplementedError"}

None == [cls |-> "NoneType"]

\* Training.__init__, inherited by Running; cls(*data) raises TypeError
\* unless data has one value for each parameter
Training_init(cls, data) ==
    IF Len(data) # 3 THEN Exception("TypeError", <<>>)
    ELSE [cls |-> cls, action |-> data[1], duration |-> data[2], weight |-> data[3]]

SportsWalking_init(cls, data) ==
    IF Len(data) # 4 THEN Exception("TypeError", <<>>)
    ELSE [cls |-> cls, action |-> data[1], duration |-> data[2], weight |-> data[3],
          height |-> data[4]]

Swimming_init(cls, data) ==
    IF Len(data) # 5 THEN Exception("TypeError", <<>>)
    ELSE [cls |-> cls, action |-> data[1], duration |-> data[2], weight |-> data[3],
          length_pool |-> data[4], count_pool |-> data[5]]

\* cls(*data)
New(cls, data) ==
    IF cls = "SportsWalking" THEN SportsWalking_init(cls, data)
    ELSE IF cls = "Swimming" THEN Swimming_init(cls, data)
    ELSE Training_init(cls, data)

\* a faulty distance: one step too few
Training_get_distance_less_one(self) ==
    PyTrueDiv(PyMul(PyAdd(self.action, PyInt(-1)), LEN_STEP(self)), M_IN_KM)

Training_get_distance(self) ==
    PyTrueDiv(PyMul(self.action, LEN_STEP(self)), M_IN_KM)

\* a faulty speed: 0 instead of a division by a duration of 0
Training_get_mean_speed_guarded(self) ==
    IF self.duration.m = <<>> THEN PyInt(0)
    ELSE PyTrueDiv(get_distance(self), self.duration)

\* a faulty speed: the distance times the duration
Training_get_mean_speed_times(self) ==
    PyMul(get_distance(self), self.duration)

Training_get_mean_speed(self) ==
    PyTrueDiv(get_distance(self), self.duration)

Training_get_spent_calories(self) == Raise("NotImplementedError")

\* a faulty order of evaluation: the calories first
InfoMessageOf_calories_first(training_type, duration, distance, speed, calories) ==
    IF IsRaised(calories) THEN ExceptionOf(calories)
    ELSE IF IsRaised(distance) THEN ExceptionOf(distance)
    ELSE IF IsRaised(speed) THEN ExceptionOf(speed)
    ELSE InfoMessage(training_type, duration, distance, speed, calories)

\* InfoMessage(...) of show_training_info: the arguments are evaluated in
\* order, and the first to raise ends the call
InfoMessageOf(training_type, duration, distance, speed, calories) ==
    IF IsRaised(distance) THEN ExceptionOf(distance)
    ELSE IF IsRaised(speed) THEN ExceptionOf(speed)
    ELSE IF IsRaised(calories) THEN ExceptionOf(calories)
    ELSE InfoMessage(training_type, duration, distance, speed, calories)

Training_show_training_info(self, libm) ==
    InfoMessageOf(CLASS_NAME[self.cls], self.duration, get_distance(self),
                  get_mean_speed(self), get_spent_calories(self, libm))

\* faulty calories: of the hours, not of the minutes
Running_get_spent_calories_per_hour(self) ==
    PyMul(PyTrueDiv(PyMul(PyAdd(PyMul(CALORIES_M, get_mean_speed(self)),
                                CALORIES_S),
                          self.weight),
                    M_IN_KM),
          self.duration)

Running_get_spent_calories(self) ==
    PyMul(PyMul(PyTrueDiv(PyMul(PyAdd(PyMul(CALORIES_M, get_mean_speed(self)),
                                      CALORIES_S),
                                self.weight),
                          M_IN_KM),
                self.duration),
          MIN_IN_HOUR)

\* faulty calories: the speed in m/s is not squared
SportsWalking_get_spent_calories_linear(self, libm) ==
    PyMul(PyAdd(PyMul(CALORIES_C1, self.weight),
                PyMul(PyMul(PyTrueDiv(PyMul(get_mean_speed(self), KM_IN_MS),
                                      PyTrueDiv(self.height, CENTI_IN_MET)),
                            CALORIES_C2),
                      self.weight)),
          PyMul(self.duration, MIN_IN_HOUR))

SportsWalking_get_spent_calories(self, libm) ==
    PyMul(PyAdd(PyMul(CALORIES_C1, self.weight),
                PyMul(PyMul(PyTrueDiv(PyPow2(PyMul(get_mean_speed(self), KM_IN_MS),
                                             libm),
                                      PyTrueDiv(self.height, CENTI_IN_MET)),
                            CALORIES_C2),
                      self.weight)),
          PyMul(self.duration, MIN_IN_HOUR))

Swimming_get_distance(self) ==
    PyTrueDiv(PyMul(self.action, LEN_STEP(self)), M_IN_KM)

Swimming_get_mean_speed(self) ==
    PyTrueDiv(PyTrueDiv(PyMul(self.length_pool, self.count_pool), M_IN_KM),
              self.duration)

Swimming_get_spent_calories(self) ==
    PyMul(PyMul(PyMul(PyAdd(get_mean_speed(self), CALORIES_SWIMMING_1),
                      CALORIES_SWIMMING_2),
                self.weight),
          self.duration)

\* the interpreter: an operator of numbers, or a method looked up in the
\* class of args[1] and then in Training
Py(name, args) ==
    CASE name = "__mul__"     -> number_mul(args[1], args[2])
      [] name = "__truediv__" -> number_truediv(args[1], args[2])
      [] name = "__add__"     -> number_add(args[1], args[2])
      [] name = "__pow__"     -> float_pow(args[1], args[2])
      [] name = "__float__"   -> number_float(args[1])
      [] name = "__format__"  -> number_format_3f(args[1])
      [] name = "round"       -> float_round(args[1], args[2], args[3], args[4])
      [] name = "get_distance" ->
            IF args[1].cls = "Swimming" THEN Swimming_get_distance(args[1])
            ELSE Training_get_distance(args[1])
      [] name = "get_mean_speed" ->
            IF args[1].cls = "Swimming" THEN Swimming_get_mean_speed(args[1])
            ELSE Training_get_mean_speed(args[1])
      [] name = "get_spent_calories" ->
            IF args[1].cls = "Running" THEN Running_get_spent_calories(args[1])
            ELSE IF args[1].cls = "SportsWalking"
            THEN SportsWalking_get_spent_calories(args[1], args[2])
            ELSE IF args[1].cls = "Swimming" THEN Swimming_get_spent_calories(args[1])
            ELSE Training_get_spent_calories(args[1])
      [] name = "show_training_info" -> Training_show_training_info(args[1], args[2])
      [] name = "get_message" -> InfoMessage_get_message(args[1])

(***************************************************************************)
(* read_package                                                            *)
(***************************************************************************)
SWM == <<83, 87, 77>>

RUN == <<82, 85, 78>>

WLK == <<87, 76, 75>>

\* the dict of read_package, as pairs of key and class
training_type ==
    { <<SWM, "Swimming">>, <<RUN, "Running">>, <<WLK, "SportsWalking">> }

\* 'No such workout - '
TEXT_NOT_FOUND_1 ==
    <<1058, 1072, 1082, 1086, 1081, 32, 1090, 1088, 1077, 1085, 1080, 1088,
      1086, 1074, 1082, 1080, 32, 45, 32>>

\* ', was found'
TEXT_NOT_FOUND_2 ==
    <<44, 32, 1085, 1077, 32, 1085, 1072, 1081, 1076, 1077, 1085, 1086>>

\* str.upper() of an ASCII string
Upper(s) == [i \in 1..Len(s) |-> IF s[i] \in 97..122 THEN s[i] - 32 ELSE s[i]]

\* a faulty lookup: the code in upper case
read_package_upper(workout_type, data) ==
    IF \E entry \in training_type : entry[1] = Upper(workout_type)
    THEN New((CHOOSE entry \in training_type : entry[1] = Upper(workout_type))[2],
             data)
    ELSE Exception("ValueError",
                   TEXT_NOT_FOUND_1 \o workout_type \o TEXT_NOT_FOUND_2)

read_package(workout_type, data) ==
    IF \E entry \in training_type : entry[1] = workout_type
    THEN New((CHOOSE entry \in training_type : entry[1] = workout_type)[2], data)
    ELSE Exception("ValueError",
                   TEXT_NOT_FOUND_1 \o workout_type \o TEXT_NOT_FOUND_2)

(***************************************************************************)
(* State                                                                   *)
(***************************************************************************)
VARIABLES
    libm,          \* how the C library's pow rounds an inexact square
    packages,      \* the list the __main__ block iterates over
    index,         \* how many packages the for loop has taken
    pc,            \* the statement the script is at
    workout_type,  \* the code of the package at hand
    data,          \* its list of readings
    training,      \* the workout object, None before there is one
    info_message,  \* the InfoMessage show_training_info returned
    info,          \* the str get_message returned, <<>> before there is one
    stdout,        \* the lines printed so far
    fault,         \* the exception the last call raised, None if it returned
    call,          \* SpecCalls: the function or method called last
    ret,           \* SpecCalls: the number a getter returned
    shown          \* SpecCalls: the calls of show_training_info in a row so
                   \* far, counted up to MaxRepeats

vars ==
    <<libm, packages, index, pc, workout_type, data, training, info_message,
      info, stdout, fault, call, ret, shown>>

NoValue == [k |-> "NoneType", s |-> 0, m |-> <<>>, e |-> 0]

(***************************************************************************)
(* Inputs                                                                  *)
(***************************************************************************)
MaxHours == 2

MaxPackages == 2

MaxRepeats == 2

\* the float literal n/d
PyFloat(n, d) == PyTrueDiv(PyInt(n), PyInt(d))

IntList(ns) == [i \in 1..Len(ns) |-> PyInt(ns[i])]

\* the packages of the __main__ block
BuiltinPackages ==
    << <<SWM, IntList(<<720, 1, 80, 25, 40>>)>>,
       <<RUN, IntList(<<15000, 1, 75>>)>>,
       <<WLK, IntList(<<9000, 1, 75, 180>>)>> >>

Libms == {"down", "up"}

\* whole hours, and 0.0 and 0.5
Durations ==
    {PyInt(h) : h \in -1..MaxHours} \cup {PyFloat(h, 2) : h \in 0..1}

Actions == {PyInt(-1), PyInt(0), PyInt(9000)}

Weights == {PyInt(0), PyInt(75), PyFloat(805, 10)}

Heights == {PyInt(0), PyInt(180)}

Pools == {PyInt(-25), PyInt(0), PyInt(25)}

Laps == {PyInt(-1), PyInt(0), PyInt(40)}

\* an action of Actions for an hour, or 9000 steps for a duration of Durations
Efforts ==
    {<<a, PyInt(1)>> : a \in Actions} \cup {<<PyInt(9000), d>> : d \in Durations}

\* argument lists: every effort with the other readings of the built-in
\* package, and every other reading with the built-in action and duration
RunningData ==
    {<<e[1], e[2], PyInt(75)>> : e \in Efforts}
    \cup {<<PyInt(15000), PyInt(1), w>> : w \in Weights}

WalkingData ==
    {<<e[1], e[2], PyInt(75), PyInt(180)>> : e \in Efforts}
    \cup {<<PyInt(9000), PyInt(1), w, h>> : w \in Weights, h \in Heights}

SwimmingData ==
    {<<e[1], e[2], PyInt(80), PyInt(25), PyInt(40)>> : e \in Efforts}
    \cup {<<PyInt(720), PyInt(1), w, PyInt(25), PyInt(40)>> : w \in Weights}
    \cup {<<PyInt(720), PyInt(1), PyInt(80), l, c>> : l \in Pools, c \in Laps}

\* codes that are not keys of the dict: lower case, mixed case, a prefix, a
\* longer string with a key inside, a key with a blank, the empty string
OtherCodes ==
    { <<115, 119, 109>>, <<82, 117, 110>>, <<82, 85>>, <<82, 85, 78, 83>>,
      <<88, 87, 76, 75>>, <<87, 76, 75, 32>>, <<>> }

\* calls of read_package: a key with an argument list of its class, or of
\* another length; any other code
PackageCalls ==
    {<<RUN, d>> : d \in RunningData}
    \cup {<<WLK, d>> : d \in WalkingData}
    \cup {<<SWM, d>> : d \in SwimmingData}
    \cup {<<RUN, BuiltinPackages[3][2]>>, <<WLK, BuiltinPackages[1][2]>>,
          <<SWM, BuiltinPackages[2][2]>>}
    \cup {<<c, BuiltinPackages[i][2]>> : c \in OtherCodes, i \in 1..3}

\* numbers for the fields of an InfoMessage built directly: whole numbers,
\* ties of the third decimal, carries into the integer part, a negative
\* number that rounds to zero
SampleNumbers ==
    << PyInt(1), PyInt(336), PyFloat(5, 10000), PyFloat(125, 1000),
       PyFloat(-1, 10000), PyFloat(9996, 10000), PyFloat(9999995, 10000),
       PyFloat(15, 10000), PyInt(0), PyFloat(1234565, 1000) >>

Sample(i) == SampleNumbers[((i - 1) % Len(SampleNumbers)) + 1]

\* the lists the script is run over: the built-in one, and every list of up
\* to MaxPackages of these packages
PackagePool ==
    { BuiltinPackages[1], BuiltinPackages[2], BuiltinPackages[3],
      <<<<82, 117, 110>>, BuiltinPackages[2][2]>>,
      <<RUN, IntList(<<15000, 0, 75>>)>>,
      <<WLK, IntList(<<9000, 1, 75>>)>> }

PackageLists ==
    {BuiltinPackages}
    \cup UNION {[1..n -> PackagePool] : n \in 0..MaxPackages}

(***************************************************************************)
(* The script: for workout_type, data in packages:                         *)
(*                 training = read_package(workout_type, data)             *)
(*                 main(training)                                          *)
(* and an uncaught exception ends it with a traceback.                     *)
(***************************************************************************)
Init ==
    /\ libm \in Libms
    /\ packages \in PackageLists
    /\ index = 0
    /\ pc = "for"
    /\ workout_type = <<>>
    /\ data = <<>>
    /\ training = None
    /\ info_message = None
    /\ info = <<>>
    /\ stdout = <<>>
    /\ fault = None
    /\ call = ""
    /\ ret = NoValue
    /\ shown = 0

ForNext ==
    /\ pc = "for"
    /\ index < Len(packages)
    /\ index' = index + 1
    /\ workout_type' = packages[index + 1][1]
    /\ data' = packages[index + 1][2]
    /\ pc' = "read_package"
    /\ UNCHANGED <<libm, packages, training, info_message, info, stdout, fault,
                   call, ret, shown>>

ForEnd ==
    /\ pc = "for"
    /\ index = Len(packages)
    /\ pc' = "exit"
    /\ UNCHANGED <<libm, packages, index, workout_type, data, training,
                   info_message, info, stdout, fault, call, ret, shown>>

\* training = <r>, or the exception r ends the script
ReadPackageReturns(r) ==
    IF IsException(r)
    THEN fault' = r /\ pc' = "traceback" /\ UNCHANGED training
    ELSE training' = r /\ pc' = "show_training_info" /\ UNCHANGED fault

ReadPackage ==
    /\ pc = "read_package"
    /\ ReadPackageReturns(read_package(workout_type, data))
    /\ UNCHANGED <<libm, packages, index, workout_type, data, info_message,
                   info, stdout, call, ret, shown>>

ShowTrainingInfoReturns(r) ==
    IF IsException(r)
    THEN fault' = r /\ pc' = "traceback" /\ UNCHANGED info_message
    ELSE info_message' = r /\ pc' = "get_message" /\ UNCHANGED fault

\* main: training.show_training_info()
ShowTrainingInfo ==
    /\ pc = "show_training_info"
    /\ ShowTrainingInfoReturns(show_training_info(training, libm))
    /\ UNCHANGED <<libm, packages, index, workout_type, data, training, info,
                   stdout, call, ret, shown>>

\* main: info = (...).get_message()
GetMessage ==
    /\ pc = "get_message"
    /\ info' = get_message(info_message)
    /\ pc' = "print"
    /\ UNCHANGED <<libm, packages, index, workout_type, data, training,
                   info_message, stdout, fault, call, ret, shown>>

\* a faulty print: the line goes before the lines printed so far
PrintInfo_first ==
    /\ pc = "print"
    /\ stdout' = <<info>> \o stdout
    /\ pc' = "for"
    /\ UNCHANGED <<libm, packages, index, workout_type, data, training,
                   info_message, info, fault, call, ret, shown>>

\* main: print(info)
PrintInfo ==
    /\ pc = "print"
    /\ stdout' = Append(stdout, info)
    /\ pc' = "for"
    /\ UNCHANGED <<libm, packages, index, workout_type, data, training,
                   info_message, info, fault, call, ret, shown>>

Next ==
    \/ ForNext
    \/ ForEnd
    \/ ReadPackage
    \/ ShowTrainingInfo
    \/ GetMessage
    \/ PrintInfo

Spec == Init /\ [][Next]_vars

(***************************************************************************)
(* A client of the module: it makes one object, by read_package or by a    *)
(* constructor, calls its methods in any order, any number of times, and   *)
(* may hand it to main at the end, as the script does.  call, ret,         *)
(* info_message, info and fault show the last call.                        *)
(***************************************************************************)
IsWorkout(obj) ==
    obj.cls \in {"Training", "Running", "SportsWalking", "Swimming"}

InitCalls ==
    /\ libm \in Libms
    /\ packages = <<>>
    /\ index = 0
    /\ pc = "client"
    /\ workout_type = <<>>
    /\ data = <<>>
    /\ training = None
    /\ info_message = None
    /\ info = <<>>
    /\ stdout = <<>>
    /\ fault = None
    /\ call = ""
    /\ ret = NoValue
    /\ shown = 0

ObjectReturns(r) ==
    IF IsException(r)
    THEN fault' = r /\ UNCHANGED training
    ELSE training' = r /\ UNCHANGED fault

CallReadPackage ==
    /\ pc = "client"
    /\ call = ""
    /\ \E package \in PackageCalls :
          /\ workout_type' = package[1]
          /\ data' = package[2]
          /\ ObjectReturns(read_package(package[1], package[2]))
    /\ call' = "read_package"
    /\ shown' = 0
    /\ UNCHANGED <<libm, packages, index, pc, info_message, info, stdout, ret>>

\* Training(action, duration, weight)
CallTraining ==
    /\ pc = "client"
    /\ call = ""
    /\ \E args \in RunningData :
          ObjectReturns(New("Training", args))
    /\ call' = "Training"
    /\ shown' = 0
    /\ UNCHANGED <<libm, packages, index, pc, workout_type, data, info_message,
                   info, stdout, ret>>

\* InfoMessage(training_type, duration, distance, speed, calories)
CallInfoMessage ==
    /\ pc = "client"
    /\ call = ""
    /\ \E i \in 1..Len(SampleNumbers), cls \in {"Running", "Swimming"} :
          info_message' = InfoMessage(CLASS_NAME[cls], Sample(i), Sample(i + 1),
                                      Sample(i + 2), Sample(i + 3))
    /\ call' = "InfoMessage"
    /\ shown' = 0
    /\ UNCHANGED <<libm, packages, index, pc, workout_type, data, training, info,
                   stdout, fault, ret>>

NumberReturns(r) ==
    /\ IF IsRaised(r)
       THEN fault' = ExceptionOf(r) /\ ret' = NoValue
       ELSE fault' = None /\ ret' = r
    /\ info_message' = None
    /\ info' = <<>>

CallGetDistance ==
    /\ pc = "client"
    /\ IsWorkout(training)
    /\ NumberReturns(get_distance(training))
    /\ call' = "get_distance"
    /\ shown' = 0
    /\ UNCHANGED <<libm, packages, index, pc, workout_type, data, training, stdout>>

CallGetMeanSpeed ==
    /\ pc = "client"
    /\ IsWorkout(training)
    /\ NumberReturns(get_mean_speed(training))
    /\ call' = "get_mean_speed"
    /\ shown' = 0
    /\ UNCHANGED <<libm, packages, index, pc, workout_type, data, training, stdout>>

CallGetSpentCalories ==
    /\ pc = "client"
    /\ IsWorkout(training)
    /\ NumberReturns(get_spent_calories(training, libm))
    /\ call' = "get_spent_calories"
    /\ shown' = 0
    /\ UNCHANGED <<libm, packages, index, pc, workout_type, data, training, stdout>>

InfoMessageReturns(r) ==
    /\ IF IsException(r)
       THEN fault' = r /\ info_message' = None
       ELSE fault' = None /\ info_message' = r
    /\ ret' = NoValue
    /\ info' = <<>>

\* a faulty show_training_info: it leaves the duration in minutes in the object
CallShowTrainingInfo_in_minutes ==
    /\ pc = "client"
    /\ IsWorkout(training)
    /\ InfoMessageReturns(show_training_info(training, libm))
    /\ training' = [training EXCEPT !.duration = PyMul(@, MIN_IN_HOUR)]
    /\ call' = "show_training_info"
    /\ shown' = IF shown < MaxRepeats THEN shown + 1 ELSE shown
    /\ UNCHANGED <<libm, packages, index, pc, workout_type, data, stdout>>

CallShowTrainingInfo ==
    /\ pc = "client"
    /\ IsWorkout(training)
    /\ InfoMessageReturns(show_training_info(training, libm))
    /\ call' = "show_training_info"
    /\ shown' = IF shown < MaxRepeats THEN shown + 1 ELSE shown
    /\ UNCHANGED <<libm, packages, index, pc, workout_type, data, training, stdout>>

CallGetMessage ==
    /\ pc = "client"
    /\ info_message # None
    /\ info' = get_message(info_message)
    /\ fault' = None
    /\ ret' = NoValue
    /\ call' = "get_message"
    /\ shown' = 0
    /\ UNCHANGED <<libm, packages, index, pc, workout_type, data, training,
                   info_message, stdout>>

\* print(info)
MainPrints(text) ==
    info' = text /\ stdout' = Append(stdout, text) /\ fault' = None

\* info = training.show_training_info().get_message(); print(info)
MainReturns(r) ==
    /\ IF IsException(r)
       THEN fault' = r /\ info' = <<>> /\ UNCHANGED stdout
       ELSE MainPrints(get_message(r))
    /\ info_message' = None
    /\ ret' = NoValue

CallMain ==
    /\ pc = "client"
    /\ IsWorkout(training)
    /\ MainReturns(show_training_info(training, libm))
    /\ call' = "main"
    /\ shown' = 0
    /\ pc' = "done"
    /\ UNCHANGED <<libm, packages, index, workout_type, data, training>>

NextCalls ==
    \/ CallReadPackage
    \/ CallTraining
    \/ CallInfoMessage
    \/ CallGetDistance
    \/ CallGetMeanSpeed
    \/ CallGetSpentCalories
    \/ CallShowTrainingInfo
    \/ CallGetMessage
    \/ CallMain

SpecCalls == InitCalls /\ [][NextCalls]_vars

(***************************************************************************)
(* Properties                                                              *)
(***************************************************************************)
IsConcrete(obj) == obj.cls \in {"Running", "SportsWalking", "Swimming"}

\* a == 0, a >= 0 and a > 0 of a number
PyIsZero(a) == a.m = <<>>

PyNonNegative(a) == a.s = 0 \/ a.m = <<>>

PyPositive(a) == a.s = 0 /\ a.m # <<>>

\* text has part somewhere in it
Contains(text, part) ==
    \E i \in 0..(Len(text) - Len(part)) :
        SubSeq(text, i + 1, i + Len(part)) = part

\* C1: read_package decides by exact membership of the code in the three
\* keys.  For a key with as many readings as the class takes, it returns
\* an instance of the mapped class (SWM -> Swimming, RUN -> Running,
\* WLK -> SportsWalking) with the readings in the declared order; a key
\* never gives ValueError.  For any other code it makes nothing and raises
\* ValueError with a text that has the code in it.
C1_Dispatch ==
    call = "read_package" =>
        /\ (workout_type = SWM /\ Len(data) = 5) =>
              /\ fault = None
              /\ training = [cls |-> "Swimming", action |-> data[1],
                             duration |-> data[2], weight |-> data[3],
                             length_pool |-> data[4], count_pool |-> data[5]]
        /\ (workout_type = RUN /\ Len(data) = 3) =>
              /\ fault = None
              /\ training = [cls |-> "Running", action |-> data[1],
                             duration |-> data[2], weight |-> data[3]]
        /\ (workout_type = WLK /\ Len(data) = 4) =>
              /\ fault = None
              /\ training = [cls |-> "SportsWalking", action |-> data[1],
                             duration |-> data[2], weight |-> data[3],
                             height |-> data[4]]
        /\ workout_type \in {SWM, RUN, WLK} => fault.cls # "ValueError"
        /\ workout_type \notin {SWM, RUN, WLK} =>
              /\ training = None
              /\ fault.cls = "ValueError"
              /\ Contains(fault.args, workout_type)

\* read_package('swm', ...) raised ValueError
C1_Witness ==
    /\ call = "read_package"
    /\ workout_type = <<115, 119, 109>>
    /\ fault.cls = "ValueError"
    /\ training = None

\* Running(15000, 1, 75)
RunningBuiltin == New("Running", BuiltinPackages[2][2])

\* SportsWalking(9000, 1, 75, 180)
SportsWalkingBuiltin == New("SportsWalking", BuiltinPackages[3][2])

\* the number v with three decimals is the numeral text
Rounds(v, text) == Format3f(v) = text

\* C2, as amended: Running(15000, 1, 75) has a distance of 9.750 km, a mean
\* speed of 9.750 km/h and 797.805 calories, each to three decimals.
C2_Running ==
    (training = RunningBuiltin /\ fault = None) =>
        /\ call = "get_distance" => Rounds(ret, <<57, 46, 55, 53, 48>>)
        /\ call = "get_mean_speed" => Rounds(ret, <<57, 46, 55, 53, 48>>)
        /\ call = "get_spent_calories" =>
              Rounds(ret, <<55, 57, 55, 46, 56, 48, 53>>)

C2_Witness ==
    /\ training = RunningBuiltin
    /\ call = "get_spent_calories"
    /\ Rounds(ret, <<55, 57, 55, 46, 56, 48, 53>>)

\* C2 as the specification has it: the calories of Running(15000, 1, 75)
\* are 798.528 to three decimals.
C2_Original ==
    (training = RunningBuiltin /\ call = "get_spent_calories") =>
        Rounds(ret, <<55, 57, 56, 46, 53, 50, 56>>)

\* C3, as amended: SportsWalking(9000, 1, 75, 180) has a distance of
\* 5.850 km, a mean speed of 5.850 km/h and 349.252 calories, each to three
\* decimals.
C3_SportsWalking ==
    (training = SportsWalkingBuiltin /\ fault = None) =>
        /\ call = "get_distance" => Rounds(ret, <<53, 46, 56, 53, 48>>)
        /\ call = "get_mean_speed" => Rounds(ret, <<53, 46, 56, 53, 48>>)
        /\ call = "get_spent_calories" =>
              Rounds(ret, <<51, 52, 57, 46, 50, 53, 50>>)

C3_Witness ==
    /\ training = SportsWalkingBuiltin
    /\ call = "get_spent_calories"
    /\ Rounds(ret, <<51, 52, 57, 46, 50, 53, 50>>)

\* C3 as the specification has it: the calories of
\* SportsWalking(9000, 1, 75, 180) are 168.318 to three decimals.
C3_Original ==
    (training = SportsWalkingBuiltin /\ call = "get_spent_calories") =>
        Rounds(ret, <<49, 54, 56, 46, 51, 49, 56>>)

\* the end of the run of digits of text that starts at i
RECURSIVE DigitsEnd(_, _)
DigitsEnd(text, i) ==
    IF i <= Len(text) /\ text[i] \in 48..57 THEN DigitsEnd(text, i + 1) ELSE i

PointEnd(text, i) ==
    IF i <= Len(text) /\ text[i] = 46 THEN DigitsEnd(text, i + 1) ELSE i

\* the end of the numeral of text that starts at i: '-' or not, digits,
\* and a point with digits or not
NumeralEnd(text, i) ==
    PointEnd(text, DigitsEnd(text, IF i <= Len(text) /\ text[i] = 45
                                   THEN i + 1 ELSE i))

StartsWith(text, i, part) ==
    /\ i + Len(part) - 1 <= Len(text)
    /\ SubSeq(text, i, i + Len(part) - 1) = part

\* the numerals of text from i on, each followed by the next of the literal
\* texts, when text ends with the last of them; <<>> when it is otherwise
RECURSIVE Numerals(_, _, _)
Numerals(text, i, literals) ==
    IF literals = <<>>
    THEN (IF i = Len(text) + 1 THEN <<<<>>>> ELSE <<>>)
    ELSE IF ~StartsWith(text, NumeralEnd(text, i), Head(literals)) THEN <<>>
    ELSE IF Numerals(text, NumeralEnd(text, i) + Len(Head(literals)),
                     Tail(literals)) = <<>>
    THEN <<>>
    ELSE <<SubSeq(text, i, NumeralEnd(text, i) - 1)>>
         \o Numerals(text, NumeralEnd(text, i) + Len(Head(literals)),
                     Tail(literals))

\* the four numerals of a message for training_type; <<>> when text is not
\* the type name and four numerals between the literal texts of the template
MessageNumerals(text, type_name) ==
    IF StartsWith(text, 1, TEXT_TYPE \o type_name \o TEXT_DURATION)
    THEN Numerals(text, Len(TEXT_TYPE \o type_name \o TEXT_DURATION) + 1,
                  <<TEXT_DISTANCE, TEXT_SPEED, TEXT_CALORIES, TEXT_END>>)
    ELSE <<>>

\* the number a string of decimal digits stands for
RECURSIVE BFromDigits(_)
BFromDigits(digits) ==
    IF digits = <<>> THEN <<>>
    ELSE BAdd(BMulSmall(BFromDigits(SubSeq(digits, 1, Len(digits) - 1)), 10),
              BFromInt(digits[Len(digits)] - 48))

Unsigned(numeral) ==
    IF numeral # <<>> /\ numeral[1] = 45 THEN Tail(numeral) ELSE numeral

\* digits, a point, three digits, with a '-' before them or not
HasThreeDecimals(numeral) ==
    /\ Len(Unsigned(numeral)) >= 5
    /\ \A i \in 1..Len(Unsigned(numeral)) :
          IF i = Len(Unsigned(numeral)) - 3 THEN Unsigned(numeral)[i] = 46
          ELSE Unsigned(numeral)[i] \in 48..57

\* the thousandths of a numeral with three decimals
NumeralThousandths(numeral) ==
    BFromDigits(SelectSeq(Unsigned(numeral), LAMBDA c : c # 46))

\* | |v| * 1000 - n | <= 1/2, for the number v = m * 2^e
WithinHalf(v, n) ==
    IF v.e >= 0
    THEN BShl(BMulSmall(v.m, 1000), v.e) = n
    ELSE IF BCmp(BMulSmall(v.m, 2000), BShl(BMulSmall(n, 2), -v.e)) >= 0
    THEN BCmp(BSub(BMulSmall(v.m, 2000), BShl(BMulSmall(n, 2), -v.e)),
              BShl(<<1>>, -v.e)) <= 0
    ELSE BCmp(BSub(BShl(BMulSmall(n, 2), -v.e), BMulSmall(v.m, 2000)),
              BShl(<<1>>, -v.e)) <= 0

\* numeral is v to three decimals: three digits after the point, the
\* nearest thousandth, the sign of v unless all digits are 0
IsRounded(numeral, v) ==
    /\ HasThreeDecimals(numeral)
    /\ WithinHalf(v, NumeralThousandths(numeral))
    /\ (numeral[1] = 45) => v.s = 1
    /\ (numeral[1] # 45 /\ NumeralThousandths(numeral) # <<>>) => v.s = 0

MessageOf(numerals, obj) ==
    /\ Len(numerals) = 5
    /\ IsRounded(numerals[1], obj.duration)
    /\ IsRounded(numerals[2], obj.distance)
    /\ IsRounded(numerals[3], obj.speed)
    /\ IsRounded(numerals[4], obj.calories)

\* C4: get_message gives the text of the template with the type name as it
\* is in the first place and then, in this order, the duration, the
\* distance, the speed and the calories, each as a numeral with exactly
\* three digits after the point that is the number rounded to thousandths.
C4_Message ==
    (call = "get_message" /\ info_message # None) =>
        MessageOf(MessageNumerals(info, info_message.training_type), info_message)

\* InfoMessage('Running', 1, 336, 0.0005, 0.125) as a text: 1.000, 336.000,
\* 0.001 and 0.125
C4_Witness ==
    /\ call = "get_message"
    /\ info_message =
          InfoMessage(CLASS_NAME["Running"], PyInt(1), PyInt(336),
                      PyFloat(5, 10000), PyFloat(125, 1000))
    /\ MessageNumerals(info, CLASS_NAME["Running"]) =
          << <<49, 46, 48, 48, 48>>, <<51, 51, 54, 46, 48, 48, 48>>,
             <<48, 46, 48, 48, 49>>, <<48, 46, 49, 50, 53>>, <<>> >>

Methods ==
    {"get_distance", "get_mean_speed", "get_spent_calories", "show_training_info"}

\* C5: on a Running, SportsWalking or Swimming object with duration > 0, a
\* call of show_training_info right after a call of show_training_info
\* gives the same InfoMessage, field for field (or the same fault); and no
\* call of get_distance, get_mean_speed, get_spent_calories or
\* show_training_info changes a field of the object.
C5_Idempotent ==
    [][/\ (/\ IsConcrete(training)
           /\ PyPositive(training.duration)
           /\ call = "show_training_info"
           /\ call' = "show_training_info")
          => (info_message' = info_message /\ fault' = fault)
       /\ (IsConcrete(training) /\ call' \in Methods) => training' = training]_vars

\* show_training_info has been called twice in a row on a Swimming object
\* with duration > 0 and has returned an InfoMessage
C5_Witness ==
    /\ training.cls = "Swimming"
    /\ PyPositive(training.duration)
    /\ call = "show_training_info"
    /\ shown = 2
    /\ info_message # None

\* the class of the package with this code in the dict of read_package
ClassOf(code) ==
    IF code = SWM THEN "Swimming"
    ELSE IF code = RUN THEN "Running"
    ELSE "SportsWalking"

\* line is the message of an object of class cls
IsLineOf(line, cls) == StartsWith(line, 1, TEXT_TYPE \o CLASS_NAME[cls] \o <<59>>)

\* C6: the script with its built-in list never ends with a traceback; the
\* lines printed are the lines of the first packages of the list, in the
\* order of the list: of all the packages taken while the for statement is
\* next and at the exit, of all but the one at hand in between (so a
\* package is read only when the line of the one before it is printed);
\* at the exit there are exactly three lines.
C6_ThreeLines ==
    packages = BuiltinPackages =>
        /\ pc # "traceback"
        /\ Len(stdout) = (IF pc \in {"for", "exit"} THEN index ELSE index - 1)
        /\ \A i \in 1..Len(stdout) : IsLineOf(stdout[i], ClassOf(packages[i][1]))
        /\ pc = "exit" => Len(stdout) = 3

C6_Witness ==
    /\ packages = BuiltinPackages
    /\ pc = "exit"
    /\ Len(stdout) = 3
    /\ IsLineOf(stdout[1], "Swimming")
    /\ IsLineOf(stdout[2], "Running")
    /\ IsLineOf(stdout[3], "SportsWalking")

ArgumentsFit(code, args) ==
    \/ code = SWM /\ Len(args) = 5
    \/ code = RUN /\ Len(args) = 3
    \/ code = WLK /\ Len(args) = 4

\* C7: read_package with a key and readings with duration = 0 returns the
\* object; on a Running, SportsWalking or Swimming object with
\* duration = 0, get_distance returns a number, and get_mean_speed,
\* get_spent_calories, show_training_info and main end with
\* ZeroDivisionError, with no number, no InfoMessage and no line printed.
C7_ZeroDuration ==
    /\ (/\ call = "read_package"
        /\ ArgumentsFit(workout_type, data)
        /\ PyIsZero(data[2]))
       => (fault = None /\ IsConcrete(training) /\ training.duration = data[2])
    /\ (IsConcrete(training) /\ PyIsZero(training.duration)) =>
          /\ call = "get_distance" => (fault = None /\ IsNum(ret))
          /\ call \in {"get_mean_speed", "get_spent_calories",
                       "show_training_info", "main"} =>
                /\ fault.cls = "ZeroDivisionError"
                /\ ret = NoValue
                /\ info_message = None
                /\ info = <<>>
          /\ stdout = <<>>

\* main on a Swimming object with duration = 0 ended with ZeroDivisionError
C7_Witness ==
    /\ training.cls = "Swimming"
    /\ PyIsZero(training.duration)
    /\ call = "main"
    /\ fault.cls = "ZeroDivisionError"
    /\ stdout = <<>>

\* C8, as amended: get_spent_calories on a Training object always raises
\* NotImplementedError; show_training_info (and main) on a Training object
\* returns no InfoMessage, and raises NotImplementedError when the
\* duration is not 0 and ZeroDivisionError when it is 0; no call on a
\* Running, SportsWalking or Swimming object raises NotImplementedError.
C8_NotImplemented ==
    /\ training.cls = "Training" =>
          /\ call = "get_spent_calories" =>
                (fault.cls = "NotImplementedError" /\ ret = NoValue)
          /\ call \in {"show_training_info", "main"} =>
                /\ info_message = None
                /\ info = <<>>
                /\ fault.cls = (IF PyIsZero(training.duration)
                                THEN "ZeroDivisionError"
                                ELSE "NotImplementedError")
    /\ IsConcrete(training) => fault.cls # "NotImplementedError"

\* show_training_info on a Training object with duration = 0
C8_Witness ==
    /\ training.cls = "Training"
    /\ PyIsZero(training.duration)
    /\ call = "show_training_info"
    /\ fault.cls = "ZeroDivisionError"

\* C8 as the specification has it: show_training_info on a Training object
\* fails with NotImplementedError, as get_spent_calories does.
C8_Original ==
    (training.cls = "Training"
     /\ call \in {"get_spent_calories", "show_training_info"})
    => (fault.cls = "NotImplementedError" /\ info_message = None)

\* action >= 0, duration > 0, weight >= 0, and height > 0 of a
\* SportsWalking, length_pool >= 0 and count_pool >= 0 of a Swimming
InputsNonNegative(obj) ==
    /\ PyNonNegative(obj.action)
    /\ PyPositive(obj.duration)
    /\ PyNonNegative(obj.weight)
    /\ obj.cls = "SportsWalking" => PyPositive(obj.height)
    /\ obj.cls = "Swimming" =>
          (PyNonNegative(obj.length_pool) /\ PyNonNegative(obj.count_pool))

\* C9: on a Running, SportsWalking or Swimming object with such inputs,
\* get_distance and get_mean_speed return numbers >= 0, and the distance
\* and the speed of the InfoMessage of show_training_info are >= 0.
C9_NonNegative ==
    (IsConcrete(training) /\ InputsNonNegative(training)) =>
        /\ call \in {"get_distance", "get_mean_speed"} =>
              (fault = None /\ IsNum(ret) /\ PyNonNegative(ret))
        /\ (call = "show_training_info" /\ info_message # None) =>
              /\ PyNonNegative(info_message.distance)
              /\ PyNonNegative(info_message.speed)

\* the InfoMessage of a Swimming object with such inputs, with a distance
\* and a speed above 0
C9_Witness ==
    /\ training.cls = "Swimming"
    /\ InputsNonNegative(training)
    /\ call = "show_training_info"
    /\ info_message # None
    /\ PyPositive(info_message.distance)
    /\ PyPositive(info_message.speed)

\* C10, as amended: with duration > 0, the mean speed of a Running and of
\* a SportsWalking object is get_distance() / duration, and the mean speed
\* of a Swimming object is length_pool * count_pool / 1000 / duration,
\* whatever its distance; the speed of the InfoMessage is that number.
C10_MeanSpeed ==
    (IsConcrete(training) /\ PyPositive(training.duration)) =>
        /\ (call = "get_mean_speed" /\ training.cls # "Swimming") =>
              ret = PyTrueDiv(get_distance(training), training.duration)
        /\ (call = "get_mean_speed" /\ training.cls = "Swimming") =>
              ret = PyTrueDiv(PyTrueDiv(PyMul(training.length_pool,
                                              training.count_pool),
                                        PyInt(1000)),
                              training.duration)
        /\ (call = "show_training_info" /\ info_message # None) =>
              info_message.speed = get_mean_speed(training)

\* the mean speed of Swimming(720, 1, 80, 25, 40) is 1.0 and is not its
\* distance by its duration
C10_Witness ==
    /\ training = New("Swimming", BuiltinPackages[1][2])
    /\ call = "get_mean_speed"
    /\ ret = PyFloat(1, 1)
    /\ ret # PyTrueDiv(get_distance(training), training.duration)

\* C10 as the specification has it: the mean speed of every variant is
\* get_distance() / duration.
C10_Original ==
    (IsConcrete(training) /\ PyPositive(training.duration)
     /\ call = "get_mean_speed")
    => ret = PyTrueDiv(get_distance(training), training.duration)

====
